---- MODULE Spec2Model ----
(***************************************************************************)
(* A model of the retrieval core of LyricMind (Mandarin_Lyric_Mind):       *)
(*   - DataPreparationModule (src/src/lyricmind/ingest/data_preparation.py)*)
(*   - GenerationIntegrationModule.query_router / extract_subqueries       *)
(*   - LyricMindRAGSystem.ask_question / _extract_filters_from_query       *)
(*                                                                         *)
(* Text is modelled as a sequence of characters.  The module is written in *)
(* ASCII, so the Chinese characters of the source are spelled in pinyin:   *)
(*   "wei","zhi"              the sentinel written at data_preparation.py  *)
(*                            lines 114-117 (two characters)               *)
(*   "wei","zhi","ge","shou"  the artist default of line 98                *)
(*   "zhang","xuan", ...      the characters of the spec's worked example  *)
(***************************************************************************)
EXTENDS Integers, Sequences, FiniteSets, TLC

VARIABLES
    pc,                 \* position of the operation being run
    parent_documents,   \* DataPreparationModule.parent_documents
    query,              \* argument of _extract_filters_from_query
    filters,            \* the dict _extract_filters_from_query returns
    child_chunks,       \* argument of get_parent_documents
    result,             \* the list get_parent_documents returns
    llm_out,            \* the text the classifier chain returned to query_router
    route_type,         \* query_router's result; ask_question's route_type
    question,           \* ask_question: its argument question
    stream,             \* ask_question: its argument stream
    retrieval_module,   \* LyricMindRAGSystem.retrieval_module is set
    generation_module,  \* LyricMindRAGSystem.generation_module is set
    vectorstore,        \* IndexConstructionModule.vectorstore is set
    rewritten_query,    \* ask_question: its local rewritten_query
    subqueries,         \* ask_question: its local subqueries
    sub_idx,            \* ask_question: position of the loop over subqueries
    all_chunks,         \* ask_question: its local all_chunks
    calls,              \* ask_question: the calls made so far, in order
    answer,             \* ask_question: the value returned
    chunks,             \* DataPreparationModule.chunks
    parent_child_map,   \* DataPreparationModule.parent_child_map
    next_uuid,          \* the number of uuid4 values drawn so far
    use_header_split,   \* argument of chunk_documents
    list_a,             \* rank_fusion: its argument list_a (chunk ids, best first)
    list_b,             \* rank_fusion: its argument list_b
    k_constant,         \* rank_fusion: its argument k_constant
    fused,              \* rank_fusion: the list it returns
    config,             \* a RAGConfig object
    config_dict,        \* the dictionary config.to_dict() returned
    restored,           \* the object RAGConfig.from_dict(config_dict) returned
    saved_index,        \* the index directory on disk (index_save_path)
    index_docs,         \* the documents the in-memory vector index holds
    retrieval_chunks,   \* the chunks handed to RetrievalOptimizationModule
    runs,               \* the number of build_knowledge_base runs started
    data_files,         \* the documents load_documents finds under data_path
    statistics          \* the dictionary get_statistics returned

filterVars == <<query, filters>>
aggVars == <<child_chunks, result>>
routerVars == <<llm_out>>
moduleVars == <<retrieval_module, generation_module, vectorstore>>

askVars == <<question, stream, moduleVars, rewritten_query, subqueries, sub_idx,
             all_chunks, calls, answer>>

chunkVars == <<chunks, parent_child_map, next_uuid, use_header_split>>

fusionVars == <<list_a, list_b, k_constant, fused>>

\* the variables of the operations that ask_question and the ingestion pass
\* do not touch
configVars == <<config, config_dict, restored>>
buildVars == <<saved_index, index_docs, retrieval_chunks, runs, data_files>>
restVars == <<fusionVars, configVars, buildVars, statistics>>

vars == <<pc, parent_documents, filterVars, aggVars, routerVars, route_type, askVars,
          chunkVars, restVars>>

(***************************************************************************)
(* Bounds                                                                  *)
(***************************************************************************)
MaxDocs == 2            \* parent documents in a corpus
MaxQueryParts == 2      \* fragments concatenated into a query
MaxHits == 4            \* child chunks handed to get_parent_documents
MaxRouterParts == 3     \* fragments concatenated into a classifier output
MaxLines == 2           \* lines of a decomposer output
MaxPieces == 3          \* pieces concatenated into a document text
ChunkSize == 2          \* chunk_size_chars of the DataPreparationModule
MaxFiles == 2           \* files under data_path
MaxRuns == 2            \* runs of build_knowledge_base over one index directory
MaxRank == 2            \* chunks in a list handed to rank_fusion
MaxUuid == 2            \* uuid4 values drawn before the last chunk_documents call

(***************************************************************************)
(* Strings                                                                 *)
(***************************************************************************)
EmptyStr == <<>>

\* Python: v in q
IsSubstring(v, q) ==
    \E i \in 0..(Len(q) - Len(v)) : SubSeq(q, i + 1, i + Len(v)) = v

Min(S) == CHOOSE x \in S : \A y \in S : x <= y
Max(S) == CHOOSE x \in S : \A y \in S : x >= y

RECURSIVE SetToSeq(_)
SetToSeq(S) ==
    IF S = {} THEN <<>>
    ELSE LET x == CHOOSE y \in S : TRUE IN <<x>> \o SetToSeq(S \ {x})

\* str.strip()
Whitespace == {" ", "\n", "\t"}
Strip(s) ==
    LET keep == {i \in DOMAIN s : s[i] \notin Whitespace}
    IN IF keep = {} THEN <<>> ELSE SubSeq(s, Min(keep), Max(keep))

\* text.split("\n")
RECURSIVE SplitLines(_)
SplitLines(s) ==
    LET nl == {i \in DOMAIN s : s[i] = "\n"}
    IN IF nl = {} THEN <<s>>
       ELSE <<SubSeq(s, 1, Min(nl) - 1)>> \o SplitLines(SubSeq(s, Min(nl) + 1, Len(s)))

RECURSIVE JoinLines(_)
JoinLines(ls) ==
    IF Len(ls) = 0 THEN <<>>
    ELSE IF Len(ls) = 1 THEN Head(ls)
    ELSE Head(ls) \o <<"\n">> \o JoinLines(Tail(ls))

RECURSIVE Concat(_)
Concat(ss) == IF ss = <<>> THEN <<>> ELSE Head(ss) \o Concat(Tail(ss))

(***************************************************************************)
(* Metadata (DataPreparationModule._enhance_metadata)                      *)
(***************************************************************************)
Unknown == <<"wei", "zhi">>
UnknownArtist == <<"wei", "zhi", "ge", "shou">>
UnknownTitle == <<"wei", "zhi", "biao", "ti">>

\* the values of CATEGORY_MAPPING
MetaKeys == {"title", "artist", "album", "year", "region", "type", "lyrics"}

\* d.get(k, default)
Get(d, k, default) == IF k \in DOMAIN d THEN d[k] ELSE default

\* d.setdefault(k, default), as the dict it leaves
SetDefault(d, k, default) ==
    [x \in DOMAIN d \cup {k} |-> IF x \in DOMAIN d THEN d[x] ELSE default]

\* Lines 112-118, applied in the source's order to the dict that holds the
\* path-derived keys and the sections found by the loop of lines 105-110.
ApplyDefaults(m0) ==
    LET m1 == SetDefault(m0, "title", Get(m0, "title_from_filename", UnknownTitle))
        m2 == SetDefault(m1, "artist", Get(m1, "artist_from_path", UnknownArtist))
        m3 == SetDefault(m2, "album", Get(m2, "album", Unknown))
        m4 == SetDefault(m3, "year", Get(m3, "year", Unknown))
        m5 == SetDefault(m4, "region", Get(m4, "region", Unknown))
        m6 == SetDefault(m5, "type", Get(m5, "year", Unknown))
        m7 == SetDefault(m6, "lyrics", Get(m6, "lyrics", EmptyStr))
    IN m7

\* A file of the corpus: root is data_path as a sequence of names (empty for
\* the current directory), rel the file's names below it, the last one the
\* file name.
FileName(stem) == stem \o <<".md">>
Stem(name) ==
    IF Len(name) > 1 /\ name[Len(name)] = ".md" THEN SubSeq(name, 1, Len(name) - 1)
    ELSE name

RECURSIVE JoinPath(_)
JoinPath(parts) ==
    IF Len(parts) = 0 THEN <<>>
    ELSE IF Len(parts) = 1 THEN Head(parts)
    ELSE Head(parts) \o <<"/">> \o JoinPath(Tail(parts))

\* hashlib.md5(rel).hexdigest(): a digest that differs whenever the relative
\* paths differ
Md5(text) == <<"md5:">> \o text

\* Lines 92-101: artist_from_path and title_from_filename
PathMeta(path_parts) ==
    [artist_from_path |-> IF Len(path_parts) >= 2 THEN path_parts[Len(path_parts) - 1]
                          ELSE UnknownArtist,
     title_from_filename |-> Stem(path_parts[Len(path_parts)])]

\* _enhance_metadata on the dict meta that load_documents built; found holds
\* the sections the regular expression of line 106 matched, each already
\* stripped (a dict from a subset of MetaKeys).
EnhanceMetadata(meta, path_parts, found) ==
    LET p == PathMeta(path_parts)
        m0 == [k \in DOMAIN meta \cup DOMAIN p \cup DOMAIN found |->
                 IF k \in DOMAIN found THEN found[k]
                 ELSE IF k \in DOMAIN p THEN p[k] ELSE meta[k]]
    IN ApplyDefaults(m0)

\* Lines 65-79: the parent Document built for one file whose text is text
LoadDocument(root, rel, text, found) ==
    LET meta == [source |-> JoinPath(root \o rel),
                 parent_id |-> Md5(JoinPath(rel)),
                 doc_type |-> <<"parent">>]
    IN [page_content |-> text,
        metadata |-> EnhanceMetadata(meta, root \o rel, found)]

(***************************************************************************)
(* Filter inference (LyricMindRAGSystem._extract_filters_from_query)       *)
(***************************************************************************)
FilterFields == {"artist", "album", "region", "year", "title"}

\* Lines 292-299: the set comprehension over parent_documents; None is
\* discarded (a key that load_documents left out).
FieldValues(docs, f) ==
    {docs[i].metadata[f] : i \in {j \in DOMAIN docs : f \in DOMAIN docs[j].metadata}}

\* sorted(values, key = len, reverse = True): the sort is stable and a set
\* iterates in hash order, so values of equal length come in any order.
ScanOrders(S) ==
    {s \in [1..Cardinality(S) -> S] :
        /\ \A i, j \in DOMAIN s : i # j => s[i] # s[j]
        /\ \A i, j \in DOMAIN s : i < j => Len(s[i]) >= Len(s[j])}

\* the positions of a scan at which "if v and v in query" holds
Hits(order, q) ==
    {i \in DOMAIN order : order[i] # EmptyStr /\ IsSubstring(order[i], q)}

\* Lines 301-304: the artist loop assigns and breaks.
ScanWithBreak(order, q) == order[Min(Hits(order, q))]

\* Lines 306-320: the other loops assign on every hit and run to the end.
ScanToEnd(order, q) == order[Max(Hits(order, q))]

\* a variant of the function in which a hit on artist ends the inference
ExtractFiltersStopAtArtist(ord, q) ==
    LET hit == {f \in FilterFields : Hits(ord[f], q) # {}}
        kept == IF "artist" \in hit THEN {"artist"} ELSE hit
    IN [f \in kept |->
          IF f = "artist" THEN ScanWithBreak(ord[f], q) ELSE ScanToEnd(ord[f], q)]

\* ord[f] is the scan order of field f; the dict holds a key for every field
\* whose scan had a hit.
ExtractFilters(ord, q) ==
    LET hit == {f \in FilterFields : Hits(ord[f], q) # {}}
    IN [f \in hit |->
          IF f = "artist" THEN ScanWithBreak(ord[f], q) ELSE ScanToEnd(ord[f], q)]

\* the scan orders the five sorted() calls may produce for a corpus
AllScanOrders(docs) ==
    [artist : ScanOrders(FieldValues(docs, "artist")),
     album : ScanOrders(FieldValues(docs, "album")),
     region : ScanOrders(FieldValues(docs, "region")),
     year : ScanOrders(FieldValues(docs, "year")),
     title : ScanOrders(FieldValues(docs, "title"))]

\* the dicts _extract_filters_from_query(q) may return
PossibleFilters(docs, q) == {ExtractFilters(ord, q) : ord \in AllScanOrders(docs)}

(***************************************************************************)
(* GenerationIntegrationModule: the parsing around the language model      *)
(***************************************************************************)
ListLabel == <<"l", "i", "s", "t">>
GeneralLabel == <<"g", "e", "n", "e", "r", "a", "l">>
CompareLabel == <<"c", "o", "m", "p", "a", "r", "e">>
DirectLabel == <<"d", "i", "r", "e", "c", "t">>
RouteLabels == {ListLabel, GeneralLabel, CompareLabel, DirectLabel}

\* a variant of query_router that returns the stripped text as it is
QueryRouterUnchecked(out) == Strip(out)

\* query_router, lines 170-175, for the text out the chain returned
QueryRouter(out) ==
    LET r == Strip(out)
    IN IF r \in RouteLabels THEN r ELSE GeneralLabel

\* query_rewritten, lines 122-134, for the text out the chain returned
QueryRewritten(q, out) == IF out = EmptyStr THEN q ELSE Strip(out)

\* extract_subqueries, lines 203-205, for the text out the chain returned
RECURSIVE StrippedNonEmpty(_)
StrippedNonEmpty(ls) ==
    IF ls = <<>> THEN <<>>
    ELSE IF Strip(Head(ls)) # EmptyStr
         THEN <<Strip(Head(ls))>> \o StrippedNonEmpty(Tail(ls))
         ELSE StrippedNonEmpty(Tail(ls))

ExtractSubqueries(out) == StrippedNonEmpty(SplitLines(out))

(***************************************************************************)
(* Parent aggregation (DataPreparationModule.get_parent_documents)         *)
(***************************************************************************)
\* c.metadata.get("parent_id") of a chunk without the key
NoneValue == <<"None">>

\* "if not pid": None and the empty string
Falsy(v) == v = NoneValue \/ v = EmptyStr

ParentIdOf(c) == Get(c.metadata, "parent_id", NoneValue)

\* Lines 330-334: the keys of parent_scores in the order the dict received
\* them, that is the truthy parent ids in first-encounter order.
RECURSIVE ScoreKeys(_, _)
ScoreKeys(cs, keys) ==
    IF cs = <<>> THEN keys
    ELSE LET pid == ParentIdOf(Head(cs))
         IN IF Falsy(pid) \/ \E i \in DOMAIN keys : keys[i] = pid
            THEN ScoreKeys(Tail(cs), keys)
            ELSE ScoreKeys(Tail(cs), Append(keys, pid))

\* parent_scores[pid] once the loop has ended
ParentScore(cs, pid) == Cardinality({i \in DOMAIN cs : ParentIdOf(cs[i]) = pid})

\* d[k]: a missing key raises KeyError
KeyError == [page_content |-> EmptyStr, metadata |-> [raised |-> <<"KeyError">>]]
Lookup(d, k) == IF k \in DOMAIN d THEN d[k] ELSE KeyError

\* Lines 335-339: parent_map holds, for every counted id that some parent
\* document carries, the first such document of parent_documents.
ParentMap(docs, cs) ==
    LET carries(pid) == {i \in DOMAIN docs :
                            Get(docs[i].metadata, "parent_id", NoneValue) = pid}
        keys == ScoreKeys(cs, <<>>)
        found == {keys[n] : n \in {m \in DOMAIN keys : carries(keys[m]) # {}}}
    IN [pid \in found |-> docs[Min(carries(pid))]]

\* sorted(keys, key = score, reverse = True) is stable: insert each key behind
\* the keys whose score is at least its own.
InsertByScoreUnstable(sorted, k, cs) ==
    LET before == {i \in DOMAIN sorted : ParentScore(cs, sorted[i]) > ParentScore(cs, k)}
        n == Cardinality(before)
    IN SubSeq(sorted, 1, n) \o <<k>> \o SubSeq(sorted, n + 1, Len(sorted))

InsertByScore(sorted, k, cs) ==
    LET before == {i \in DOMAIN sorted : ParentScore(cs, sorted[i]) >= ParentScore(cs, k)}
        n == Cardinality(before)
    IN SubSeq(sorted, 1, n) \o <<k>> \o SubSeq(sorted, n + 1, Len(sorted))

RECURSIVE SortByScore(_, _, _)
SortByScore(keys, sorted, cs) ==
    IF keys = <<>> THEN sorted
    ELSE SortByScore(Tail(keys), InsertByScore(sorted, Head(keys), cs), cs)

\* a variant of line 343 without its "if pid in parent_map"
RECURSIVE ResolveAllUnguarded(_, _)
ResolveAllUnguarded(parent_map, pids) ==
    IF pids = <<>> THEN <<>>
    ELSE <<Lookup(parent_map, Head(pids))>> \o ResolveAllUnguarded(parent_map, Tail(pids))

\* Line 343: [parent_map[pid] for pid in sorted_pids if pid in parent_map]
RECURSIVE ResolveAll(_, _)
ResolveAll(parent_map, pids) ==
    IF pids = <<>> THEN <<>>
    ELSE IF Head(pids) \in DOMAIN parent_map
         THEN <<Lookup(parent_map, Head(pids))>> \o ResolveAll(parent_map, Tail(pids))
         ELSE ResolveAll(parent_map, Tail(pids))

\* get_parent_documents(child_chunks)
GetParentDocuments(docs, cs) ==
    ResolveAll(ParentMap(docs, cs), SortByScore(ScoreKeys(cs, <<>>), <<>>, cs))

\* the call ends in an exception when a lookup raised
Raised(list) == \E i \in DOMAIN list : list[i] = KeyError

(***************************************************************************)
(* Chunking (DataPreparationModule.chunk_documents)                        *)
(*                                                                         *)
(* A text is a sequence of the characters "#", " ", "\n", "x" and of the   *)
(* header keys of CATEGORY_MAPPING, each written as one character: "T" for *)
(* the title key, "L" for the lyrics key and "Y" for the year key.         *)
(***************************************************************************)
KeyChars == {"T", "L", "Y"}
KeyName(c) == IF c = "T" THEN "title" ELSE IF c = "L" THEN "lyrics" ELSE "year"

\* the first position from k on that holds no whitespace (Len(t) + 1 if none)
SkipWs(t, k) ==
    Min({p \in k..(Len(t) + 1) : p = Len(t) + 1 \/ t[p] \notin Whitespace})

\* "##\s*(?:keys)" matched at position i: the position of the key, else 0
KeyEnd(t, i, keys) ==
    IF i + 1 <= Len(t) /\ t[i] = "#" /\ t[i + 1] = "#"
    THEN LET j == SkipWs(t, i + 2)
         IN IF j <= Len(t) /\ t[j] \in keys THEN j ELSE 0
    ELSE 0

\* the lookahead "\n##\s*" at position p
HeaderAhead(t, p) ==
    p + 2 <= Len(t) /\ t[p] = "\n" /\ t[p + 1] = "#" /\ t[p + 2] = "#"

\* The patterns of lines 106 and 180 matched at position i: after the key,
\* the greedy "\s*\n" (line 106: "\s*\n+") ends at the last newline of the
\* whitespace run that still leaves a character, and the lazy "(.+?)" ends
\* at the first position followed by "\n##" or by the end of the text.
\* The result is <<first, last>> of the group, or <<0, 0>> for no match.
SectionAt(t, i, keys) ==
    LET j == KeyEnd(t, i, keys)
        k == SkipWs(t, j + 1)
        cand == {n \in (j + 1)..(k - 1) : t[n] = "\n" /\ n < Len(t)}
    IN IF j = 0 \/ cand = {} THEN <<0, 0>>
       ELSE LET c == Max(cand) + 1
                e == Min({x \in c..Len(t) : x = Len(t) \/ HeaderAhead(t, x + 1)})
            IN <<c, e>>

\* re.findall of line 181, from position pos on: the groups' texts
RECURSIVE FindSections(_, _, _)
FindSections(t, pos, keys) ==
    LET starts == {i \in pos..Len(t) : SectionAt(t, i, keys) # <<0, 0>>}
    IN IF starts = {} THEN <<>>
       ELSE LET m == SectionAt(t, Min(starts), keys)
            IN <<SubSeq(t, m[1], m[2])>> \o FindSections(t, m[2] + 1, keys)

\* re.split(r"\n(?=##\s+)", text) of line 187
RECURSIVE GenericSplit(_)
GenericSplit(t) ==
    LET cuts == {n \in DOMAIN t :
                    /\ n + 3 <= Len(t)
                    /\ t[n] = "\n" /\ t[n + 1] = "#" /\ t[n + 2] = "#"
                    /\ t[n + 3] \in Whitespace}
    IN IF cuts = {} THEN <<t>>
       ELSE <<SubSeq(t, 1, Min(cuts) - 1)>>
            \o GenericSplit(SubSeq(t, Min(cuts) + 1, Len(t)))

RECURSIVE StripAll(_)
StripAll(ls) == IF ls = <<>> THEN <<>> ELSE <<Strip(Head(ls))>> \o StripAll(Tail(ls))

\* _split_by_header, lines 171-188
SplitByHeader(t, keys) ==
    IF t = EmptyStr THEN <<>>
    ELSE IF keys # {} /\ FindSections(t, 1, keys) # <<>>
         THEN StripAll(FindSections(t, 1, keys))
         ELSE StrippedNonEmpty(GenericSplit(t))

\* [text[i:i+size] for i in range(0, len(text), size)]
RECURSIVE Windows(_, _)
Windows(t, size) ==
    IF Len(t) <= size THEN (IF t = EmptyStr THEN <<>> ELSE <<t>>)
    ELSE <<SubSeq(t, 1, size)>> \o Windows(SubSeq(t, size + 1, Len(t)), size)

\* _split_by_size without the test of line 191
SplitBySizeKeepEmpty(t, size) ==
    IF Len(Strip(t)) <= size THEN <<Strip(t)>> ELSE Windows(Strip(t), size)

\* _split_by_size without the strip of line 193
SplitBySizeRaw(t, size) == Windows(t, size)

\* _split_by_size, lines 190-197
SplitBySize(t, size) ==
    IF t = EmptyStr THEN <<>>
    ELSE IF Len(Strip(t)) <= size THEN <<Strip(t)>>
    ELSE Windows(Strip(t), size)

\* Lines 105-110: the sections found in a text, stripped
FoundSections(t) ==
    LET has(c) == \E i \in DOMAIN t : SectionAt(t, i, {c}) # <<0, 0>>
        first(c) == SectionAt(t, Min({i \in DOMAIN t : SectionAt(t, i, {c}) # <<0, 0>>}), {c})
        keys == {KeyName(c) : c \in {d \in KeyChars : has(d)}}
    IN [k \in keys |->
           LET c == CHOOSE d \in KeyChars : KeyName(d) = k
           IN Strip(SubSeq(t, first(c)[1], first(c)[2]))]

\* Lines 137-151: the blocks of one parent
Blocks(parent, header_split, size) ==
    LET text == parent.page_content
        blocks == IF header_split THEN SplitByHeader(text, KeyChars) ELSE <<text>>
        lyrics_text == Strip(Get(parent.metadata, "lyrics", EmptyStr))
    IN IF Len(blocks) <= 1
       THEN IF lyrics_text # EmptyStr THEN <<lyrics_text>> ELSE SplitBySize(text, size)
       ELSE blocks

\* str(uuid.uuid4()): the n-th value drawn differs from all values before
Uuid(n) == <<"uuid", ToString(n)>>

\* Lines 153-165: the child Document of block idx (from 0) of a parent
ChildDocument(parent, block, idx, child_id) ==
    LET upd == [chunk_id |-> child_id,
                parent_id |-> Get(parent.metadata, "parent_id", NoneValue),
                doc_type |-> <<"child">>,
                chunk_index |-> idx]
    IN [page_content |-> Strip(block),
        metadata |-> [k \in DOMAIN parent.metadata \cup DOMAIN upd |->
                         IF k \in DOMAIN upd THEN upd[k] ELSE parent.metadata[k]]]

\* the children of one parent, the first of them taking the uuid after used
ChildrenOf(parent, header_split, size, used) ==
    LET blocks == Blocks(parent, header_split, size)
    IN [i \in DOMAIN blocks |-> ChildDocument(parent, blocks[i], i - 1, Uuid(used + i))]

\* Lines 134-165: child_chunks after the loop over the parents
RECURSIVE ChunkAll(_, _, _, _)
ChunkAll(docs, header_split, size, used) ==
    IF docs = <<>> THEN <<>>
    ELSE LET cs == ChildrenOf(Head(docs), header_split, size, used)
         IN cs \o ChunkAll(Tail(docs), header_split, size, used + Len(cs))

\* Line 164: parent_child_map[child_id] = parent_id, for each child in turn
RECURSIVE MapChildren(_, _)
MapChildren(map, cs) ==
    IF cs = <<>> THEN map
    ELSE LET c == Head(cs).metadata["chunk_id"]
             m == [k \in DOMAIN map \cup {c} |->
                      IF k = c THEN Head(cs).metadata["parent_id"] ELSE map[k]]
         IN MapChildren(m, Tail(cs))

(***************************************************************************)
(* RAGConfig (src/src/lyricmind/config.py).  A float is kept as the text   *)
(* of its literal.                                                         *)
(***************************************************************************)
\* Lines 18-19: the defaults of top_k and top_cmp_k
TopK == 10
\* the compare route on the standard budget
StandardBudget == TopK
TopCmpK == 3

\* Lines 10-22: the fields and their defaults
DefaultConfig ==
    [data_path |-> "data",
     index_save_path |-> "index",
     embedding_model |-> "BAAI/bge-small-zh-v1.5",
     llm_model |-> "deepseek-reasoner",
     top_k |-> TopK,
     top_cmp_k |-> TopCmpK,
     temperature |-> "0.7",
     max_tokens |-> 2048]

ConfigFields == DOMAIN DefaultConfig

\* Lines 34-40: the keys of the dictionary to_dict builds
ToDictKeys ==
    {"data_path", "index_save_path", "embedding_model", "llm_model", "top_k",
     "temperature", "max_tokens"}

\* Lines 31-41: to_dict
ToDict(cfg) == [key \in ToDictKeys |-> cfg[key]]

\* Lines 26-29: from_dict is cls(**config_dict); a field without a keyword
\* takes its default (the dictionary's keys are field names)
FromDict(d) ==
    [field \in ConfigFields |-> IF field \in DOMAIN d THEN d[field] ELSE DefaultConfig[field]]

(***************************************************************************)
(* The variables a specification does not use keep these values.           *)
(***************************************************************************)
NoFilters == [f \in {} |-> EmptyStr]
NoAnswer == [by |-> "none", query |-> EmptyStr, docs |-> <<>>]

FilterIdle == query = EmptyStr /\ filters = NoFilters
AggIdle == child_chunks = <<>> /\ result = <<>>
RouterIdle == llm_out = EmptyStr
ChunkIdle ==
    /\ chunks = <<>>
    /\ parent_child_map = [c \in {} |-> EmptyStr]
    /\ next_uuid = 0
    /\ use_header_split = TRUE
FusionIdle == list_a = <<>> /\ list_b = <<>> /\ k_constant = 0 /\ fused = <<>>
ConfigIdle ==
    /\ config = DefaultConfig
    /\ config_dict = [key \in {} |-> EmptyStr]
    /\ restored = DefaultConfig
NoIndex == [present |-> FALSE, docs |-> <<>>]
BuildIdle ==
    /\ saved_index = NoIndex
    /\ index_docs = <<>>
    /\ retrieval_chunks = <<>>
    /\ runs = 0
    /\ data_files = <<>>
NoCounts == [value \in {} |-> 0]
NoStatistics ==
    [total_parents |-> 0, total_chunks |-> 0, artists_count |-> NoCounts,
     regions_count |-> NoCounts, years_count |-> NoCounts, albums_count |-> NoCounts,
     avg_chunk_size_chars |-> [num |-> 0, den |-> 1]]
StatisticsIdle == statistics = NoStatistics
RestIdle == FusionIdle /\ ConfigIdle /\ BuildIdle /\ StatisticsIdle
AskIdle ==
    /\ question = EmptyStr
    /\ stream = FALSE
    /\ retrieval_module = FALSE
    /\ generation_module = FALSE
    /\ vectorstore = FALSE
    /\ rewritten_query = EmptyStr
    /\ subqueries = <<>>
    /\ sub_idx = 0
    /\ all_chunks = <<>>
    /\ calls = <<>>
    /\ answer = NoAnswer

(***************************************************************************)
(* Inputs of the filter-inference specification                            *)
(***************************************************************************)
PresentSets ==
    {{}, {"artist"}, {"album"}, {"artist", "album"},
     {"region", "year", "title"},
     {"artist", "album", "region", "year", "title"}}

SectionValues == {<<"a">>, <<"a", "b">>}

\* The parents load_documents builds for the files data/<n>/b/b.md whose
\* sections P hold the value v, for a file b.md of the current directory, and
\* for a file whose album section is blank.  Filter inference reads the
\* metadata only, so the text is left out of these documents.
DataRoot == <<<<"d", "a", "t", "a">>>>

PoolFiles ==
    {[root |-> DataRoot, found |-> [k \in P |-> v]] :
        P \in PresentSets, v \in SectionValues}
    \cup {[root |-> <<>>, found |-> [k \in {} |-> EmptyStr]]}
    \cup {[root |-> DataRoot, found |-> [k \in {"album"} |-> EmptyStr]]}

\* the n-th file of a corpus lies in its own directory <n>
FileRel(root, n) ==
    IF root = <<>> THEN <<FileName(<<"b">>)>>
    ELSE <<<<ToString(n)>>, <<"b">>, FileName(<<"b">>)>>

Corpora ==
    {LET fs == SetToSeq(S)
     IN [i \in DOMAIN fs |->
            LoadDocument(fs[i].root, FileRel(fs[i].root, i), EmptyStr, fs[i].found)] :
        S \in {T \in SUBSET PoolFiles : Cardinality(T) <= MaxDocs}}

QueryFragments == {<<"a">>, <<"b">>, <<"x">>, Unknown}

Queries ==
    UNION {{Concat(ps) : ps \in [1..n -> QueryFragments]} : n \in 0..MaxQueryParts}

\* The worked example of the spec: artists Zhang Xuan and Wei Ruxuan, the
\* album "mei gui se de ni", and the question asked about them.
ZhangXuan == <<"zhang", "xuan">>
WeiRuXuan == <<"wei", "ru", "xuan2">>
MeiGuiSeDeNi == <<"mei", "gui", "se", "de", "ni">>
ExampleQuery ==
    ZhangXuan \o <<"de", "lq">> \o MeiGuiSeDeNi \o <<"rq", "zen", "me", "yang">>
ExampleDocs ==
    << LoadDocument(DataRoot, <<ZhangXuan, FileName(<<"song1">>)>>, EmptyStr,
           [k \in {"artist", "album"} |->
               IF k = "artist" THEN ZhangXuan ELSE MeiGuiSeDeNi]),
       LoadDocument(DataRoot, <<WeiRuXuan, FileName(<<"song2">>)>>, EmptyStr,
           [k \in {"artist"} |-> WeiRuXuan]) >>

InitFilter ==
    /\ pc = "filter_call"
    /\ \/ parent_documents \in Corpora /\ query \in Queries
       \/ parent_documents = ExampleDocs /\ query = ExampleQuery
    /\ filters = NoFilters
    /\ AggIdle /\ RouterIdle /\ AskIdle /\ ChunkIdle
    /\ route_type = EmptyStr
    /\ RestIdle

\* one call of _extract_filters_from_query(query)
ExtractFiltersCall ==
    /\ pc = "filter_call"
    /\ \E f \in PossibleFilters(parent_documents, query) : filters' = f
    /\ pc' = "filter_return"
    /\ UNCHANGED <<parent_documents, query, aggVars, restVars, routerVars, route_type, askVars, chunkVars>>

NextFilter == ExtractFiltersCall

SpecFilter == InitFilter /\ [][NextFilter]_vars

(***************************************************************************)
(* Inputs of the parent-aggregation specification                          *)
(***************************************************************************)
\* three song files of one artist directory
SongFile(n) == <<<<"b">>, FileName(<<"s", ToString(n)>>)>>
Song(n) == LoadDocument(DataRoot, SongFile(n), <<"x">>, [k \in {} |-> EmptyStr])
SongId(n) == Song(n).metadata["parent_id"]

\* corpora: all three songs, or the second and first only (the third id then
\* resolves to no parent)
AggCorpora == {<<Song(1), Song(2), Song(3)>>, <<Song(2), Song(1)>>}

\* the parent ids a retrieved chunk may carry: a song, an id of no file, the
\* empty string, or no parent_id key at all
HitIds == {SongId(1), SongId(2), SongId(3), Md5(<<"g", "o", "n", "e">>), EmptyStr, NoneValue}

Hit(pid) ==
    [page_content |-> <<"x">>,
     metadata |-> IF pid = NoneValue THEN [doc_type |-> <<"child">>]
                  ELSE [doc_type |-> <<"child">>, parent_id |-> pid]]

HitLists == UNION {[1..n -> {Hit(pid) : pid \in HitIds}] : n \in 0..MaxHits}

InitAgg ==
    /\ pc = "agg_call"
    /\ parent_documents \in AggCorpora
    /\ child_chunks \in HitLists
    /\ result = <<>>
    /\ FilterIdle /\ RouterIdle /\ AskIdle /\ ChunkIdle
    /\ route_type = EmptyStr
    /\ RestIdle

\* one call of get_parent_documents(child_chunks)
GetParentDocumentsCall ==
    /\ pc = "agg_call"
    /\ LET r == GetParentDocuments(parent_documents, child_chunks)
       IN IF Raised(r)
          THEN pc' = "agg_raised" /\ result' = <<>>
          ELSE pc' = "agg_return" /\ result' = r
    /\ UNCHANGED <<parent_documents, child_chunks, filterVars, restVars, routerVars, route_type, askVars, chunkVars>>

NextAgg == GetParentDocumentsCall

SpecAgg == InitAgg /\ [][NextAgg]_vars

(***************************************************************************)
(* Inputs of the ask_question specification                                *)
(***************************************************************************)
\* two songs: the first names its artist "a" and its album "ab"
AskCorpus ==
    << LoadDocument(DataRoot, SongFile(1), <<"x">>,
           [k \in {"artist", "album"} |-> IF k = "artist" THEN <<"a">> ELSE <<"a", "b">>]),
       Song(2) >>

\* questions and sub-queries: "a" names an artist of the corpus, "x" nothing
AskTexts == {<<"a">>, <<"x">>}

\* what the three chains may answer
ClassifierOutputs ==
    {ListLabel, GeneralLabel, CompareLabel, DirectLabel, <<"x">>,
     <<" ">> \o ListLabel \o <<"\n">>}
RewriterOutputs == {EmptyStr, <<"a">>, <<" ", "x">>}
DecomposerLines == {<<"a">>, <<"x">>, <<" ", "a", " ">>, EmptyStr}
DecomposerOutputs ==
    UNION {{JoinLines(ls) : ls \in [1..n -> DecomposerLines]} : n \in 0..MaxLines}

\* what a search may return: chunks 1 and 2 of the first song, chunk 3 of
\* the second
Chunk(n, pid) ==
    [page_content |-> <<"x">>,
     metadata |-> [doc_type |-> <<"child">>, parent_id |-> pid,
                   chunk_id |-> <<"c", ToString(n)>>]]
SearchResults ==
    {<<>>, <<Chunk(1, SongId(1))>>, <<Chunk(2, SongId(1))>>,
     <<Chunk(3, SongId(2)), Chunk(1, SongId(1))>>}

(***************************************************************************)
(* LyricMindRAGSystem.ask_question                                         *)
(***************************************************************************)
\* the fixed text of line 247
Apology == [by |-> "apology", query |-> EmptyStr, docs |-> <<>>]

\* a call on generation_module, retrieval_module or data_module
Call(op, q) == [op |-> op, query |-> q, filters |-> NoFilters, top_k |-> 0]
SearchCall(op, q, f, k) == [op |-> op, query |-> q, filters |-> f, top_k |-> k]

\* the value a generate_* method returns
Generated(op, q, docs) == [by |-> op, query |-> q, docs |-> docs]

\* a variant in which the direct route is not told apart
IsDirectNever(route) == FALSE

\* Line 137
IsDirect(route) == route = DirectLabel

\* a variant in which the list route is rewritten like the others
KeepsQueryNever(route) == FALSE

\* Lines 146-155 and 203-206: the list route keeps the query as it is
KeepsQuery(route) == route = ListLabel

\* what a search call returned to ask_question
Returned(hits) ==
    [op |-> "search_returned", query |-> EmptyStr, filters |-> NoFilters, top_k |-> 0,
     docs |-> hits]

\* all_chunks.extend(chunks) keeping the last result only
ExtendReplacing(pool, hits) == hits

\* Line 216: all_chunks.extend(chunks)
Extend(pool, hits) == pool \o hits

\* the loop of lines 180-183 aggregating the whole pool for every group
CompareGroupsMixed(docs, groups) ==
    [i \in DOMAIN groups |-> GetParentDocuments(docs, Concat(groups))]

\* Lines 180-183: get_parent_documents on each group in turn
CompareGroups(docs, groups) ==
    [i \in DOMAIN groups |-> GetParentDocuments(docs, groups[i])]

\* if filters: ... without its test
SearchOpAlwaysHybrid(f) == "hybrid_search"

\* Lines 169-174 and 209-214
SearchOp(f) == IF f # NoFilters THEN "metadata_filtered_search" ELSE "hybrid_search"

\* Lines 140-143, 187-190, 261, 283-286
StreamOp(op, s) == IF s THEN op \o "_stream" ELSE op

\* all(...) without its test
AllSetAlways(modules) == TRUE

\* all([...]): every module of the list is set
AllSet(modules) == \A i \in DOMAIN modules : modules[i]

\* Lines 125-131
AskEnter ==
    /\ pc = "ask_call"
    /\ pc' = IF AllSet(<<retrieval_module, generation_module>>) THEN "ask_route"
             ELSE "ask_raised"
    /\ UNCHANGED <<parent_documents, filterVars, restVars, aggVars, routerVars, route_type, askVars, chunkVars>>

\* Lines 133-135: the classifier answers out
AskRoute ==
    /\ pc = "ask_route"
    /\ \E out \in ClassifierOutputs :
          /\ route_type' = QueryRouter(out)
          /\ pc' = IF IsDirect(QueryRouter(out)) THEN "ask_direct" ELSE "ask_rewrite"
    /\ calls' = Append(calls, Call("query_router", question))
    /\ UNCHANGED <<parent_documents, filterVars, restVars, aggVars, chunkVars, routerVars, question, stream,
                   moduleVars, rewritten_query, subqueries, sub_idx, all_chunks, answer>>

\* Lines 137-143
AskDirect ==
    /\ pc = "ask_direct"
    /\ LET op == IF stream THEN "generate_direct_answer_stream"
                 ELSE "generate_direct_answer"
       IN /\ calls' = Append(calls, Call(op, question))
          /\ answer' = Generated(op, question, <<>>)
    /\ pc' = "ask_return"
    /\ UNCHANGED <<parent_documents, filterVars, restVars, aggVars, chunkVars, routerVars, route_type, question,
                   stream, moduleVars, rewritten_query, subqueries, sub_idx, all_chunks>>

\* Lines 146-155
AskRewrite ==
    /\ pc = "ask_rewrite"
    /\ IF KeepsQuery(route_type)
       THEN rewritten_query' = question /\ calls' = calls
       ELSE \E out \in RewriterOutputs :
               /\ rewritten_query' = QueryRewritten(question, out)
               /\ calls' = Append(calls, Call("query_rewritten", question))
    /\ pc' = "ask_decompose"
    /\ UNCHANGED <<parent_documents, filterVars, restVars, aggVars, chunkVars, routerVars, route_type, question,
                   stream, moduleVars, subqueries, sub_idx, all_chunks, answer>>

\* Lines 158-161 and 193-197: the decomposer answers out
AskDecompose ==
    /\ pc = "ask_decompose"
    /\ \E out \in DecomposerOutputs : subqueries' = ExtractSubqueries(out)
    /\ calls' = Append(calls, Call("extract_subqueries", rewritten_query))
    /\ sub_idx' = 1
    /\ all_chunks' = <<>>
    /\ pc' = "ask_retrieve"
    /\ UNCHANGED <<parent_documents, filterVars, restVars, aggVars, chunkVars, routerVars, route_type, question,
                   stream, moduleVars, rewritten_query, answer>>

\* Lines 162-176: one round of the compare route's loop
AskRetrieveCompare ==
    /\ pc = "ask_retrieve"
    /\ route_type = CompareLabel
    /\ sub_idx <= Len(subqueries)
    /\ LET subquery == subqueries[sub_idx]
           rewritten_subquery == subquery
       IN \E f \in PossibleFilters(parent_documents, subquery), hits \in SearchResults :
             /\ calls' = calls \o
                   << Call("_extract_filters_from_query", subquery),
                      SearchCall(SearchOp(f), rewritten_subquery, f, TopCmpK),
                      Returned(hits) >>
             /\ all_chunks' = Append(all_chunks, hits)
    /\ sub_idx' = sub_idx + 1
    /\ UNCHANGED <<pc, parent_documents, filterVars, restVars, aggVars, chunkVars, routerVars, route_type,
                   question, stream, moduleVars, rewritten_query, subqueries, answer>>

\* Lines 177-190: the groups are aggregated one by one and handed to the
\* compare generator
AskAnswerCompare ==
    /\ pc = "ask_retrieve"
    /\ route_type = CompareLabel
    /\ sub_idx > Len(subqueries)
    /\ LET relevant_docs == CompareGroups(parent_documents, all_chunks)
           op == StreamOp("generate_compare_answer", stream)
       IN /\ calls' = calls
                \o [i \in DOMAIN all_chunks |-> Call("get_parent_documents", EmptyStr)]
                \o <<Call(op, rewritten_query)>>
          /\ answer' = Generated(op, rewritten_query, relevant_docs)
    /\ pc' = "ask_return"
    /\ UNCHANGED <<parent_documents, filterVars, restVars, aggVars, chunkVars, routerVars, route_type, question,
                   stream, moduleVars, rewritten_query, subqueries, sub_idx, all_chunks>>

\* Lines 199-216: one round of the list and general routes' loop
AskRetrieve ==
    /\ pc = "ask_retrieve"
    /\ route_type # CompareLabel
    /\ sub_idx <= Len(subqueries)
    /\ LET subquery == subqueries[sub_idx]
       IN \E out \in (IF KeepsQuery(route_type) THEN {EmptyStr} ELSE RewriterOutputs),
             f \in PossibleFilters(parent_documents, subquery),
             hits \in SearchResults :
             LET rewritten_subquery == IF KeepsQuery(route_type) THEN subquery
                                       ELSE QueryRewritten(subquery, out)
             IN /\ calls' = calls
                      \o (IF KeepsQuery(route_type) THEN <<>>
                          ELSE <<Call("query_rewritten", subquery)>>)
                      \o << Call("_extract_filters_from_query", subquery),
                            SearchCall(SearchOp(f), rewritten_subquery, f, TopK),
                            Returned(hits) >>
                /\ all_chunks' = Extend(all_chunks, hits)
    /\ sub_idx' = sub_idx + 1
    /\ UNCHANGED <<pc, parent_documents, filterVars, restVars, aggVars, chunkVars, routerVars, route_type,
                   question, stream, moduleVars, rewritten_query, subqueries, answer>>

\* Lines 218-247: nothing was retrieved
AskAnswerEmpty ==
    /\ pc = "ask_retrieve"
    /\ route_type # CompareLabel
    /\ sub_idx > Len(subqueries)
    /\ all_chunks = <<>>
    /\ answer' = Apology
    /\ pc' = "ask_return"
    /\ UNCHANGED <<parent_documents, filterVars, restVars, aggVars, chunkVars, routerVars, route_type, question,
                   stream, moduleVars, rewritten_query, subqueries, sub_idx, all_chunks,
                   calls>>

\* Lines 249-261: the list route has no streaming variant
AskAnswerList ==
    /\ pc = "ask_retrieve"
    /\ route_type = ListLabel
    /\ sub_idx > Len(subqueries)
    /\ all_chunks # <<>>
    /\ LET relevant_docs == GetParentDocuments(parent_documents, all_chunks)
       IN /\ calls' = calls \o << Call("get_parent_documents", EmptyStr),
                                  Call("generate_list_answer", question) >>
          /\ answer' = Generated("generate_list_answer", question, relevant_docs)
    /\ pc' = "ask_return"
    /\ UNCHANGED <<parent_documents, filterVars, restVars, aggVars, chunkVars, routerVars, route_type, question,
                   stream, moduleVars, rewritten_query, subqueries, sub_idx, all_chunks>>

\* Lines 262-286
AskAnswerGeneral ==
    /\ pc = "ask_retrieve"
    /\ route_type \notin {CompareLabel, ListLabel}
    /\ sub_idx > Len(subqueries)
    /\ all_chunks # <<>>
    /\ LET relevant_docs == GetParentDocuments(parent_documents, all_chunks)
           op == StreamOp("generate_basic_answer", stream)
       IN /\ calls' = calls \o << Call("get_parent_documents", EmptyStr),
                                  Call(op, question) >>
          /\ answer' = Generated(op, question, relevant_docs)
    /\ pc' = "ask_return"
    /\ UNCHANGED <<parent_documents, filterVars, restVars, aggVars, chunkVars, routerVars, route_type, question,
                   stream, moduleVars, rewritten_query, subqueries, sub_idx, all_chunks>>

\* The log entry of an external call that raised: ask_question (lines 125-286)
\* has no try block, so the exception leaves it at the call that raised
RaisedIn(op) ==
    [op |-> "raised", query |-> EmptyStr, filters |-> NoFilters, top_k |-> 0, by |-> op]

AfterFailureRetry(at) == at

\* Where ask_question is after an external call raised at position at: no
\* except clause encloses any call of lines 125-286, so the call is left
AfterFailure(at) == "ask_failed"

\* The calls made up to and including the one that raised
Fails(made, op) ==
    /\ calls' = calls \o made \o <<RaisedIn(op)>>
    /\ pc' = AfterFailure(pc)
    /\ UNCHANGED <<parent_documents, filterVars, restVars, aggVars, chunkVars, routerVars, route_type,
                   question, stream, moduleVars, rewritten_query, subqueries, sub_idx,
                   all_chunks, answer>>

\* An external call of ask_question raises. The streaming generators (lines
\* 228-257, 280-299, 336-369 of generation_integration.py) are generator
\* functions: calling them runs none of their body, so they cannot raise
\* inside ask_question
AskFail ==
    \/ /\ pc = "ask_route"
       /\ Fails(<<Call("query_router", question)>>, "query_router")
    \/ /\ pc = "ask_direct"
       /\ ~stream
       /\ Fails(<<Call("generate_direct_answer", question)>>, "generate_direct_answer")
    \/ /\ pc = "ask_rewrite"
       /\ ~KeepsQuery(route_type)
       /\ Fails(<<Call("query_rewritten", question)>>, "query_rewritten")
    \/ /\ pc = "ask_decompose"
       /\ Fails(<<Call("extract_subqueries", rewritten_query)>>, "extract_subqueries")
    \/ /\ pc = "ask_retrieve"
       /\ route_type = CompareLabel
       /\ sub_idx <= Len(subqueries)
       /\ LET subquery == subqueries[sub_idx]
          IN \E f \in PossibleFilters(parent_documents, subquery) :
                Fails(<< Call("_extract_filters_from_query", subquery),
                         SearchCall(SearchOp(f), subquery, f, TopCmpK) >>, SearchOp(f))
    \/ /\ pc = "ask_retrieve"
       /\ route_type # CompareLabel
       /\ ~KeepsQuery(route_type)
       /\ sub_idx <= Len(subqueries)
       /\ Fails(<<Call("query_rewritten", subqueries[sub_idx])>>, "query_rewritten")
    \/ /\ pc = "ask_retrieve"
       /\ route_type # CompareLabel
       /\ sub_idx <= Len(subqueries)
       /\ LET subquery == subqueries[sub_idx]
          IN \E out \in (IF KeepsQuery(route_type) THEN {EmptyStr} ELSE RewriterOutputs),
                f \in PossibleFilters(parent_documents, subquery) :
                LET rewritten_subquery == IF KeepsQuery(route_type) THEN subquery
                                          ELSE QueryRewritten(subquery, out)
                IN Fails((IF KeepsQuery(route_type) THEN <<>>
                          ELSE <<Call("query_rewritten", subquery)>>)
                         \o << Call("_extract_filters_from_query", subquery),
                               SearchCall(SearchOp(f), rewritten_subquery, f, TopK) >>,
                         SearchOp(f))
    \/ /\ pc = "ask_retrieve"
       /\ route_type = CompareLabel
       /\ sub_idx > Len(subqueries)
       /\ ~stream
       /\ Fails([i \in DOMAIN all_chunks |-> Call("get_parent_documents", EmptyStr)]
                \o <<Call("generate_compare_answer", rewritten_query)>>,
                "generate_compare_answer")
    \/ /\ pc = "ask_retrieve"
       /\ route_type = ListLabel
       /\ sub_idx > Len(subqueries)
       /\ all_chunks # <<>>
       /\ Fails(<< Call("get_parent_documents", EmptyStr),
                   Call("generate_list_answer", question) >>, "generate_list_answer")
    \/ /\ pc = "ask_retrieve"
       /\ route_type \notin {CompareLabel, ListLabel}
       /\ sub_idx > Len(subqueries)
       /\ all_chunks # <<>>
       /\ ~stream
       /\ Fails(<< Call("get_parent_documents", EmptyStr),
                   Call("generate_basic_answer", question) >>, "generate_basic_answer")

\* doc.metadata.get('title', ...) of line 337 when the key is missing
UnknownSong == <<"wei", "zhi", "ge", "qu">>

\* Lines 335-339: the titles of the documents, each once, in order
RECURSIVE Titles(_, _)
Titles(docs, seen) ==
    IF docs = <<>> THEN seen
    ELSE LET title == Get(Head(docs).metadata, "title", UnknownSong)
         IN Titles(Tail(docs),
                   IF \E i \in DOMAIN seen : seen[i] = title THEN seen
                   ELSE Append(seen, title))

\* Lines 325-341: search_by_artist(artist, query), query being question or ""
SearchByArtist ==
    /\ pc = "artist_call"
    /\ IF ~retrieval_module
       THEN /\ pc' = "artist_raised"
            /\ UNCHANGED <<calls, answer>>
       ELSE \E artist \in AskTexts, query_arg \in {EmptyStr, question},
               docs \in SearchResults :
               LET search_query == IF query_arg # EmptyStr THEN query_arg ELSE artist
                   f == [k \in {"artist"} |-> artist]
               IN /\ calls' = Append(calls,
                        SearchCall("metadata_filtered_search", search_query, f, 10))
                  /\ answer' = Generated("search_by_artist", search_query, Titles(docs, <<>>))
                  /\ pc' = "artist_return"
    /\ UNCHANGED <<parent_documents, filterVars, restVars, aggVars, chunkVars, routerVars, route_type,
                   question, stream, moduleVars, rewritten_query, subqueries, sub_idx,
                   all_chunks>>

\* index_construction.py lines 110-117: similarity_search(question, k)
SimilaritySearch ==
    /\ pc = "similarity_call"
    /\ IF ~vectorstore
       THEN /\ pc' = "similarity_raised"
            /\ UNCHANGED <<calls, answer>>
       ELSE \E k \in {1, 5}, docs \in SearchResults :
               /\ calls' = Append(calls,
                     SearchCall("vectorstore.similarity_search", question, NoFilters, k))
               /\ answer' = Generated("similarity_search", question, docs)
               /\ pc' = "similarity_return"
    /\ UNCHANGED <<parent_documents, filterVars, restVars, aggVars, chunkVars, routerVars, route_type,
                   question, stream, moduleVars, rewritten_query, subqueries, sub_idx,
                   all_chunks>>

NextAsk ==
    \/ SearchByArtist
    \/ SimilaritySearch
    \/ AskEnter
    \/ AskRoute
    \/ AskDirect
    \/ AskRewrite
    \/ AskDecompose
    \/ AskRetrieveCompare
    \/ AskAnswerCompare
    \/ AskRetrieve
    \/ AskAnswerEmpty
    \/ AskAnswerList
    \/ AskAnswerGeneral

InitAsk ==
    /\ pc \in {"ask_call", "artist_call", "similarity_call"}
    /\ parent_documents = AskCorpus
    /\ question \in AskTexts
    /\ stream \in BOOLEAN
    /\ retrieval_module \in BOOLEAN
    /\ generation_module \in BOOLEAN
    /\ vectorstore \in BOOLEAN
    /\ route_type = EmptyStr
    /\ rewritten_query = EmptyStr
    /\ subqueries = <<>>
    /\ sub_idx = 0
    /\ all_chunks = <<>>
    /\ calls = <<>>
    /\ answer = NoAnswer
    /\ FilterIdle /\ AggIdle /\ RouterIdle /\ ChunkIdle
    /\ RestIdle

SpecAsk == InitAsk /\ [][NextAsk]_vars

\* ask_question with external calls that may raise
NextAskFail ==
    \/ SearchByArtist
    \/ SimilaritySearch
    \/ AskEnter
    \/ AskRoute
    \/ AskDirect
    \/ AskRewrite
    \/ AskDecompose
    \/ AskRetrieveCompare
    \/ AskAnswerCompare
    \/ AskRetrieve
    \/ AskAnswerEmpty
    \/ AskAnswerList
    \/ AskAnswerGeneral
    \/ AskFail

SpecAskFail == InitAsk /\ [][NextAskFail]_vars

(***************************************************************************)
(* Rank fusion (RetrievalOptimizationModule._rrf_rerank).  The operators   *)
(* follow section 4.2 of the specification, the module's source not being  *)
(* at hand, and the inputs follow tests/test_retrieval_optimization.py.    *)
(* A ranked list is a sequence of                                          *)
(* chunk ids without repetition, best first.  A fused score is an exact    *)
(* fraction: rrf_score is its numerator over Denominator(k_constant).      *)
(***************************************************************************)
\* the smoothing constant of the test's call (line 29)
DefaultK == 60

\* the common denominator of 1/(k+1), ..., 1/(k+MaxRank)
RECURSIVE ProductTo(_, _)
ProductTo(k, rank) == IF rank = 0 THEN 1 ELSE (k + rank) * ProductTo(k, rank - 1)
Denominator(k) == ProductTo(k, MaxRank)

\* 1-based rank of a chunk in a list, 0 when it is not in the list
RankIn(list, id) ==
    IF \E i \in DOMAIN list : list[i] = id
    THEN CHOOSE i \in DOMAIN list : list[i] = id /\ \A j \in 1..(i - 1) : list[j] # id
    ELSE 0

\* 1 / (k + rank_in_that_list), nothing for a list the chunk is not in
Contribution(list, id, k) ==
    IF RankIn(list, id) = 0 THEN 0 ELSE Denominator(k) \div (k + RankIn(list, id))

\* the sum over every list in which the chunk appears
FusedScore(a, b, id, k) == Contribution(a, id, k) + Contribution(b, id, k)

FirstEncounteredRepeating(a, b) == a \o b

\* the chunks of both lists, each once, list A scanned first, then list B
FirstEncountered(a, b) ==
    a \o SelectSeq(b, LAMBDA id : RankIn(a, id) = 0)

RECURSIVE InsertFusedUnstable(_, _)
InsertFusedUnstable(sorted, hit) ==
    IF sorted = <<>> THEN <<hit>>
    ELSE IF Head(sorted).rrf_score > hit.rrf_score
         THEN <<Head(sorted)>> \o InsertFusedUnstable(Tail(sorted), hit)
         ELSE <<hit>> \o sorted

\* descending by fused score, a tie keeping the earlier chunk first
RECURSIVE InsertFused(_, _)
InsertFused(sorted, hit) ==
    IF sorted = <<>> THEN <<hit>>
    ELSE IF Head(sorted).rrf_score >= hit.rrf_score
         THEN <<Head(sorted)>> \o InsertFused(Tail(sorted), hit)
         ELSE <<hit>> \o sorted

RECURSIVE SortFused(_, _)
SortFused(hits, sorted) ==
    IF hits = <<>> THEN sorted
    ELSE SortFused(Tail(hits), InsertFused(sorted, Head(hits)))

\* rank_fusion(list_a, list_b, k_constant)
RankFusion(a, b, k) ==
    LET ids == FirstEncountered(a, b)
        hits == [i \in DOMAIN ids |->
                    [chunk_id |-> ids[i], rrf_score |-> FusedScore(a, b, ids[i], k)]]
    IN SortFused(hits, <<>>)

\* chunk ids as the test's make_doc gives them (lines 18-25)
ChunkIds == {"1", "2", "3"}

\* the ranked lists of at most MaxRank chunks
RankedLists ==
    UNION { { l \in [1..n -> ChunkIds] : \A i, j \in 1..n : i # j => l[i] # l[j] }
            : n \in 0..MaxRank }

KConstants == {1, DefaultK}

InitFusion ==
    /\ pc = "fusion_call"
    /\ list_a \in RankedLists
    /\ list_b \in RankedLists
    /\ k_constant \in KConstants
    /\ fused = <<>>
    /\ parent_documents = <<>>
    /\ route_type = EmptyStr
    /\ FilterIdle /\ AggIdle /\ RouterIdle /\ AskIdle /\ ChunkIdle
    /\ ConfigIdle /\ BuildIdle /\ StatisticsIdle

\* one call of rank_fusion
RankFusionCall ==
    /\ pc = "fusion_call"
    /\ fused' = RankFusion(list_a, list_b, k_constant)
    /\ pc' = "fusion_return"
    /\ UNCHANGED <<parent_documents, filterVars, aggVars, routerVars, route_type, askVars,
                   chunkVars, list_a, list_b, k_constant, configVars, buildVars, statistics>>

NextFusion == RankFusionCall

SpecFusion == InitFusion /\ [][NextFusion]_vars

(***************************************************************************)
(* Claims about rank fusion (checked under SpecFusion)                     *)
(***************************************************************************)
ChunksOf(list) == { list[i] : i \in DOMAIN list }

\* C22: rank_fusion returns the union of the chunks of both lists, each chunk
\* id once and nothing else, at most |A|+|B| long, every chunk carrying a
\* positive fused score.
C22_FusionIsDedupedUnion ==
    pc = "fusion_return" =>
        /\ \A id \in ChunksOf(list_a) \cup ChunksOf(list_b) :
              Cardinality({ i \in DOMAIN fused : fused[i].chunk_id = id }) = 1
        /\ \A i \in DOMAIN fused :
              /\ fused[i].chunk_id \in ChunksOf(list_a) \cup ChunksOf(list_b)
              /\ fused[i].rrf_score > 0
        /\ Len(fused) <= Len(list_a) + Len(list_b)

\* two full lists that share a chunk
C22_Witness ==
    /\ pc = "fusion_return"
    /\ Len(list_a) = MaxRank
    /\ Len(list_b) = MaxRank
    /\ ChunksOf(list_a) \cap ChunksOf(list_b) # {}
    /\ ChunksOf(list_a) # ChunksOf(list_b)
    /\ Len(fused) < Len(list_a) + Len(list_b)

\* the fraction num/den is the sum of 1/(k + rank) over the lists holding id
IsRrfSum(num, den, id) ==
    LET ra == RankIn(list_a, id)
        rb == RankIn(list_b, id)
        k == k_constant
    IN CASE ra > 0 /\ rb > 0 -> num * (k + ra) * (k + rb) = den * ((k + ra) + (k + rb))
         [] ra > 0 /\ rb = 0 -> num * (k + ra) = den
         [] ra = 0 /\ rb > 0 -> num * (k + rb) = den
         [] OTHER -> FALSE

IdsOf(hits) == [i \in DOMAIN hits |-> hits[i].chunk_id]

\* C23: the output is in descending order of fused score, the score being the
\* sum of 1/(k + rank) over the lists that hold the chunk; equal scores keep
\* first-encountered order (list A, then list B); [A,B] and [A,C] with k = 60
\* give [A, B, C].
C23_SortedByFusedScore ==
    pc = "fusion_return" =>
        /\ \A i \in DOMAIN fused :
              IsRrfSum(fused[i].rrf_score, Denominator(k_constant), fused[i].chunk_id)
        /\ \A i, j \in DOMAIN fused :
              i < j =>
                 /\ fused[i].rrf_score >= fused[j].rrf_score
                 /\ fused[i].rrf_score = fused[j].rrf_score =>
                       RankIn(list_a \o list_b, fused[i].chunk_id)
                          < RankIn(list_a \o list_b, fused[j].chunk_id)
        /\ (list_a = <<"1", "2">> /\ list_b = <<"1", "3">> /\ k_constant = DefaultK) =>
              IdsOf(fused) = <<"1", "2", "3">>

\* the test's lists: chunk 2 of list A and chunk 3 of list B tie
C23_Witness ==
    /\ pc = "fusion_return"
    /\ list_a = <<"1", "2">>
    /\ list_b = <<"1", "3">>
    /\ k_constant = DefaultK
    /\ fused[2].rrf_score = fused[3].rrf_score
    /\ IdsOf(fused) = <<"1", "2", "3">>

(***************************************************************************)
(* RAGConfig: a configuration, its dictionary and the object made of it    *)
(***************************************************************************)
\* the values of test_config.py lines 55-64 beside the defaults
Configs ==
    [data_path : {"data", "d"},
     index_save_path : {"index", "i"},
     embedding_model : {"BAAI/bge-small-zh-v1.5", "e"},
     llm_model : {"deepseek-reasoner", "l"},
     top_k : {TopK, 1},
     top_cmp_k : {TopCmpK, 1},
     temperature : {"0.7", "0.1"},
     max_tokens : {2048, 256}]

InitConfig ==
    /\ pc = "config_new"
    /\ config \in Configs
    /\ config_dict = [key \in {} |-> EmptyStr]
    /\ restored = DefaultConfig
    /\ parent_documents = <<>>
    /\ route_type = EmptyStr
    /\ FilterIdle /\ AggIdle /\ RouterIdle /\ AskIdle /\ ChunkIdle
    /\ FusionIdle /\ BuildIdle /\ StatisticsIdle

\* config.to_dict()
ConfigToDict ==
    /\ pc = "config_new"
    /\ config_dict' = ToDict(config)
    /\ pc' = "to_dict_return"
    /\ UNCHANGED <<parent_documents, filterVars, aggVars, routerVars, route_type, askVars,
                   chunkVars, fusionVars, buildVars, statistics, config, restored>>

\* RAGConfig.from_dict(config_dict)
ConfigFromDict ==
    /\ pc = "to_dict_return"
    /\ restored' = FromDict(config_dict)
    /\ pc' = "from_dict_return"
    /\ UNCHANGED <<parent_documents, filterVars, aggVars, routerVars, route_type, askVars,
                   chunkVars, fusionVars, buildVars, statistics, config, config_dict>>

NextConfig == ConfigToDict \/ ConfigFromDict

SpecConfig == InitConfig /\ [][NextConfig]_vars

\* C25: to_dict returns every field of the configuration with its current
\* value, so from_dict(cfg.to_dict()) equals cfg.
C25_ToDictIsComplete ==
    /\ pc \in {"to_dict_return", "from_dict_return"} =>
          /\ DOMAIN config_dict = ConfigFields
          /\ \A field \in DOMAIN config_dict : config_dict[field] = config[field]
    /\ pc = "from_dict_return" => restored = config

(***************************************************************************)
(* Inputs of the chunking specification                                    *)
(***************************************************************************)
TextPieces ==
    { <<"#", "#", "T", "\n", "x", "\n">>,      \* a title section with a body
      <<"#", "#", "L", "\n", "x", "\n">>,      \* a lyrics section with a body
      <<"#", "#", "T", "\n">>,                 \* a title header
      <<"#", "#", " ", "x", "\n">>,            \* a header outside the vocabulary
      <<"x">>, <<" ", " ">>, <<"\n">> }

Texts == UNION {{Concat(ps) : ps \in [1..n -> TextPieces]} : n \in 0..MaxPieces}

\* the corpus of one file with the text t
OneFile(t) == <<LoadDocument(DataRoot, SongFile(1), t, FoundSections(t))>>

InitChunk ==
    /\ pc = "chunk_call"
    /\ parent_documents \in {OneFile(t) : t \in Texts} \cup {<<>>}
    /\ use_header_split \in BOOLEAN
    /\ chunks = <<>>
    /\ parent_child_map = [c \in {} |-> EmptyStr]
    /\ next_uuid = 0
    /\ route_type = EmptyStr
    /\ FilterIdle /\ AggIdle /\ RouterIdle /\ AskIdle
    /\ RestIdle

\* "if not self.parent_documents" without its test
NoParentsNever(docs) == FALSE

\* Line 130: if not self.parent_documents
NoParents(docs) == docs = <<>>

\* Lines 124-169: the body of chunk_documents(header_split)
ChunkDocuments(header_split) ==
    IF NoParents(parent_documents)
    THEN /\ pc' = "chunk_raised"
         /\ UNCHANGED <<chunks, parent_child_map, next_uuid>>
    ELSE /\ chunks' = ChunkAll(parent_documents, header_split, ChunkSize, next_uuid)
         /\ parent_child_map' = MapChildren(parent_child_map, chunks')
         /\ next_uuid' = next_uuid + Len(chunks')
         /\ pc' = "chunk_return"

\* one call of chunk_documents(use_header_split)
ChunkDocumentsCall ==
    /\ pc = "chunk_call"
    /\ ChunkDocuments(use_header_split)
    /\ UNCHANGED <<parent_documents, use_header_split, filterVars, restVars, aggVars, routerVars,
                   route_type, askVars>>

NextChunk == ChunkDocumentsCall

SpecChunk == InitChunk /\ [][NextChunk]_vars

(***************************************************************************)
(* Claims about chunking (checked under SpecChunk)                         *)
(***************************************************************************)
\* C10: every child chunk produced by chunk_documents has content that is
\* non-empty after trimming.
C10_NoEmptyChunk ==
    \A i \in DOMAIN chunks : Strip(chunks[i].page_content) # EmptyStr

\* a text made of header sections only: "##", a key of the vocabulary, a line
\* break, and the body followed by a line break when there is a body
SectionText(key, body) ==
    <<"#", "#", key, "\n">> \o (IF body = EmptyStr THEN EmptyStr ELSE body \o <<"\n">>)
SectionBodies == {<<"x">>, EmptyStr}
SectionLists(n) == [1..n -> KeyChars \X SectionBodies]
SectionsText(ss) == Concat([i \in DOMAIN ss |-> SectionText(ss[i][1], ss[i][2])])

\* C11: a parent whose content consists of n > 1 header sections of the
\* vocabulary yields exactly n chunks, the i-th holding the i-th section's
\* body, with chunk_index 0..n-1 and the parent's parent_id.
C11_OneChunkPerSection ==
    (pc = "chunk_return" /\ use_header_split) =>
        \A n \in 2..MaxPieces : \A ss \in SectionLists(n) :
            SectionsText(ss) = parent_documents[1].page_content =>
                /\ Len(chunks) = n
                /\ \A i \in 1..n :
                      /\ chunks[i].page_content = Strip(ss[i][2])
                      /\ chunks[i].metadata["chunk_index"] = i - 1
                      /\ chunks[i].metadata["parent_id"] =
                            parent_documents[1].metadata["parent_id"]

\* Lines 146-151: the parent reaches the fixed-window fallback
Fallback(parent, header_split) ==
    /\ Len(IF header_split THEN SplitByHeader(parent.page_content, KeyChars)
           ELSE <<parent.page_content>>) <= 1
    /\ Strip(Get(parent.metadata, "lyrics", EmptyStr)) = EmptyStr

\* the contents of the chunks, in order
Contents(cs) == [i \in DOMAIN cs |-> cs[i].page_content]

TwoSections == SectionText("T", <<"x">>) \o SectionText("L", <<"x">>)
DataTexts == {EmptyStr, TwoSections, SectionText("Y", <<"x">>)}

\* the parent load_documents makes of file n holding the text t
DataFile(n, t) == LoadDocument(DataRoot, SongFile(n), t, FoundSections(t))

\* what load_documents can find under data_path: files 1..n, each with a text
DataCorpora ==
    UNION {{[i \in 1..n |-> DataFile(i, ts[i])] : ts \in [1..n -> DataTexts]} :
              n \in 0..MaxFiles}

\* the places where the caller holds the module and may call it
DataIdle == {"data_new", "load_return", "load_raised", "chunk_return", "chunk_raised"}

InitData ==
    /\ pc = "data_new"
    /\ parent_documents = <<>>
    /\ route_type = EmptyStr
    /\ FilterIdle /\ AggIdle /\ RouterIdle /\ AskIdle /\ ChunkIdle
    /\ RestIdle

\* Lines 48-83: load_documents; data_path is missing, or its files are read
DataLoadDocuments ==
    /\ pc \in DataIdle
    /\ \/ /\ pc' = "load_raised"
          /\ UNCHANGED parent_documents
       \/ /\ parent_documents' \in DataCorpora
          /\ pc' = "load_return"
    /\ UNCHANGED <<filterVars, restVars, aggVars, routerVars, route_type, askVars, chunkVars>>

\* chunk_documents(header_split) called on the module as it is
DataChunkDocuments ==
    /\ pc \in DataIdle
    /\ next_uuid < MaxUuid
    /\ \E header_split \in BOOLEAN :
          /\ use_header_split' = header_split
          /\ ChunkDocuments(header_split)
    /\ UNCHANGED <<parent_documents, filterVars, restVars, aggVars, routerVars, route_type, askVars>>

NextData == DataLoadDocuments \/ DataChunkDocuments

SpecData == InitData /\ [][NextData]_vars

(***************************************************************************)
(* Claims about the module's life (checked under SpecData)                 *)
(***************************************************************************)
\* C13: chunk_documents called while no parent document is loaded fails and
\* leaves chunks and parent_child_map as they were.
C13_ChunkWithoutParentsFails ==
    [][(DataChunkDocuments /\ parent_documents = <<>>) =>
          /\ pc' = "chunk_raised"
          /\ chunks' = chunks
          /\ parent_child_map' = parent_child_map]_vars

\* C13 witness: the call failed after a load that found no document, on a
\* module that held chunks of an earlier load.
C13_Witness ==
    /\ pc = "chunk_raised"
    /\ parent_documents = <<>>
    /\ chunks # <<>>
    /\ DOMAIN parent_child_map # {}

HasContent(d) == d.page_content # EmptyStr

\* the documents of a list whose content is not empty, in order
RECURSIVE NonEmptyDocs(_)
NonEmptyDocs(docs) ==
    IF docs = <<>> THEN <<>>
    ELSE IF HasContent(Head(docs)) THEN <<Head(docs)>> \o NonEmptyDocs(Tail(docs))
         ELSE NonEmptyDocs(Tail(docs))

\* chunks without their chunk_id, which is drawn at random
Anonymous(cs) ==
    [i \in DOMAIN cs |->
        [page_content |-> cs[i].page_content,
         metadata |-> [k \in DOMAIN cs[i].metadata \ {"chunk_id"} |-> cs[i].metadata[k]]]]

\* C14: a batch that holds a parent with empty content is chunked without
\* failing; the empty parent gives no chunk, and the chunks are those of the
\* batch without its empty parents.
C14_EmptyParentGivesNoChunk ==
    /\ pc = "chunk_raised" => parent_documents = <<>>
    /\ pc = "chunk_return" =>
          /\ \A i \in DOMAIN chunks : \A n \in DOMAIN parent_documents :
                chunks[i].metadata["parent_id"] = parent_documents[n].metadata["parent_id"]
                    => HasContent(parent_documents[n])
          /\ Anonymous(chunks) =
                Anonymous(ChunkAll(NonEmptyDocs(parent_documents),
                                   use_header_split, ChunkSize, 0))

\* C14 witness: a batch whose first parent is empty and whose second parent
\* is not was chunked, and chunks were produced.
C14_Witness ==
    /\ pc = "chunk_return"
    /\ Len(parent_documents) = 2
    /\ ~HasContent(parent_documents[1])
    /\ HasContent(parent_documents[2])
    /\ chunks # <<>>

\* the values that stand for "unknown"
Sentinels == {Unknown, UnknownArtist, UnknownTitle}

\* the keys of the vocabulary whose header key occurs nowhere in the text
AbsentKeys(text) ==
    MetaKeys \ {KeyName(c) : c \in {d \in KeyChars : \E i \in DOMAIN text : text[i] = d}}

\* C15: after load_documents every parent carries all seven keys, and each
\* key whose section is absent from the text holds the "unknown" sentinel.
C15_AbsentKeysHoldSentinel ==
    \A n \in DOMAIN parent_documents :
        LET d == parent_documents[n]
        IN /\ MetaKeys \subseteq DOMAIN d.metadata
           /\ \A k \in AbsentKeys(d.page_content) : d.metadata[k] \in Sentinels

\* C27: after any sequence of load_documents and chunk_documents calls,
\* parent_child_map has exactly one entry per chunk of the current chunks
\* list, its key the chunk's chunk_id and its value the chunk's parent_id.
C27_MapMatchesChunks ==
    pc \in DataIdle =>
        /\ DOMAIN parent_child_map = { chunks[i].metadata["chunk_id"] : i \in DOMAIN chunks }
        /\ \A i \in DOMAIN chunks :
              parent_child_map[chunks[i].metadata["chunk_id"]]
                 = chunks[i].metadata["parent_id"]

(***************************************************************************)
(* get_statistics on the module as load_documents and chunk_documents left *)
(* it.  It reads the module and changes none of its fields, so the calls   *)
(* made after it reach the module states they reach without it; a run is   *)
(* followed up to the call's outcome.                                      *)
(***************************************************************************)
\* Lines 297-306: how many parents carry each value of a metadata key
CountBy(docs, key) ==
    LET value(i) == Get(docs[i].metadata, key, Unknown)
    IN [v \in { value(i) : i \in DOMAIN docs } |->
           Cardinality({ i \in DOMAIN docs : value(i) = v })]

\* sum(len(c.page_content or "") for c in self.chunks)
RECURSIVE SumOfSizes(_)
SumOfSizes(cs) ==
    IF cs = <<>> THEN 0 ELSE Len(Head(cs).page_content) + SumOfSizes(Tail(cs))

\* Lines 308-310: the division is made when there is a parent, and its
\* divisor is the number of chunks
DividesByZero(parents, cs) == Len(parents) # 0 /\ Len(cs) = 0

\* Lines 289-320: the dictionary returned; the average is kept as a fraction
GetStatistics(parents, cs) ==
    [total_parents |-> Len(parents),
     total_chunks |-> Len(cs),
     artists_count |-> CountBy(parents, "artist"),
     regions_count |-> CountBy(parents, "region"),
     years_count |-> CountBy(parents, "year"),
     albums_count |-> CountBy(parents, "album"),
     avg_chunk_size_chars |-> IF Len(parents) # 0
                              THEN [num |-> SumOfSizes(cs), den |-> Len(cs)]
                              ELSE [num |-> 0, den |-> 1]]

\* get_statistics(): ZeroDivisionError at line 310, or the dictionary
DataGetStatistics ==
    /\ pc \in DataIdle
    /\ IF DividesByZero(parent_documents, chunks)
       THEN /\ pc' = "stats_raised"
            /\ UNCHANGED statistics
       ELSE /\ statistics' = GetStatistics(parent_documents, chunks)
            /\ pc' = "stats_return"
    /\ UNCHANGED <<parent_documents, filterVars, aggVars, routerVars, route_type, askVars,
                   chunkVars, fusionVars, configVars, buildVars>>

NextStats == DataLoadDocuments \/ DataChunkDocuments \/ DataGetStatistics

SpecStats == InitData /\ [][NextStats]_vars

\* C28: get_statistics returns a record without raising in every state that
\* load_documents and chunk_documents calls reach, with total_parents and
\* total_chunks the current lengths of parent_documents and chunks.
C28_StatisticsNeverRaises ==
    pc \in {"stats_return", "stats_raised"} =>
        /\ pc = "stats_return"
        /\ statistics.total_parents = Len(parent_documents)
        /\ statistics.total_chunks = Len(chunks)

(***************************************************************************)
(* LyricMindRAGSystem.build_knowledge_base, run by one process after       *)
(* another over the same data_path and index_save_path.  uuid4 values are  *)
(* never repeated, across processes either, so next_uuid goes on counting. *)
(***************************************************************************)
askLocals == <<question, stream, rewritten_query, subqueries, sub_idx, all_chunks, calls,
               answer>>

InitBuild ==
    /\ pc = "build_new"
    /\ data_files \in DataCorpora
    /\ saved_index = NoIndex
    /\ index_docs = <<>>
    /\ retrieval_chunks = <<>>
    /\ runs = 0
    /\ parent_documents = <<>>
    /\ route_type = EmptyStr
    /\ FilterIdle /\ AggIdle /\ RouterIdle /\ AskIdle /\ ChunkIdle
    /\ FusionIdle /\ ConfigIdle /\ StatisticsIdle

\* cli.py lines 33-78: a process makes its LyricMindRAGSystem, with new and
\* empty modules; the retrieval module is not made yet
SystemInit ==
    /\ pc \in {"build_new", "build_return", "build_raised"}
    /\ runs < MaxRuns
    /\ runs' = runs + 1
    /\ parent_documents' = <<>>
    /\ chunks' = <<>>
    /\ parent_child_map' = [c \in {} |-> EmptyStr]
    /\ index_docs' = <<>>
    /\ retrieval_chunks' = <<>>
    /\ vectorstore' = FALSE
    /\ retrieval_module' = FALSE
    /\ generation_module' = TRUE
    /\ pc' = "build_load_index"
    /\ UNCHANGED <<filterVars, aggVars, routerVars, route_type, askLocals, next_uuid,
                   use_header_split, fusionVars, configVars, statistics, saved_index,
                   data_files>>

\* cli.py line 81 and index_construction.py lines 87-108: load_index returns
\* None when the directory is missing or when FAISS.load_local raises
BuildLoadIndex ==
    /\ pc = "build_load_index"
    /\ \/ /\ saved_index.present
          /\ index_docs' = saved_index.docs
          /\ vectorstore' = TRUE
       \/ /\ UNCHANGED <<index_docs, vectorstore>>
    /\ pc' = "build_load_documents"
    /\ UNCHANGED <<parent_documents, filterVars, aggVars, routerVars, route_type, askLocals,
                   retrieval_module, generation_module, chunkVars, fusionVars, configVars,
                   statistics, saved_index, retrieval_chunks, runs, data_files>>

\* cli.py lines 86 and 93: load_documents, on either path
BuildLoadDocuments ==
    /\ pc = "build_load_documents"
    /\ parent_documents' = data_files
    /\ pc' = "build_chunk"
    /\ UNCHANGED <<filterVars, aggVars, routerVars, route_type, askVars, chunkVars,
                   restVars>>

\* cli.py lines 88 and 96: chunks = chunk_documents(), on either path
BuildChunk ==
    /\ pc = "build_chunk"
    /\ use_header_split' = TRUE
    /\ IF NoParents(parent_documents)
       THEN /\ pc' = "build_raised"
            /\ UNCHANGED <<chunks, parent_child_map, next_uuid>>
       ELSE /\ chunks' = ChunkAll(parent_documents, TRUE, ChunkSize, next_uuid)
            /\ parent_child_map' = MapChildren(parent_child_map, chunks')
            /\ next_uuid' = next_uuid + Len(chunks')
            /\ pc' = IF vectorstore THEN "build_retrieval" ELSE "build_index"
    /\ UNCHANGED <<parent_documents, filterVars, aggVars, routerVars, route_type, askVars,
                   restVars>>

\* cli.py lines 99-102 and index_construction.py lines 44-85: the new index
\* holds the chunks just made and is saved
BuildIndex ==
    /\ pc = "build_index"
    /\ IF chunks = <<>>
       THEN /\ pc' = "build_raised"
            /\ UNCHANGED <<index_docs, vectorstore, saved_index>>
       ELSE /\ index_docs' = chunks
            /\ vectorstore' = TRUE
            /\ saved_index' = [present |-> TRUE, docs |-> chunks]
            /\ pc' = "build_retrieval"
    /\ UNCHANGED <<parent_documents, filterVars, aggVars, routerVars, route_type, askLocals,
                   retrieval_module, generation_module, chunkVars, fusionVars, configVars,
                   statistics, retrieval_chunks, runs, data_files>>

\* cli.py lines 110-118: RetrievalOptimizationModule(vectorstore, chunks),
\* then get_statistics
BuildRetrieval ==
    /\ pc = "build_retrieval"
    /\ retrieval_chunks' = chunks
    /\ retrieval_module' = TRUE
    /\ IF DividesByZero(parent_documents, chunks)
       THEN /\ pc' = "build_raised"
            /\ UNCHANGED statistics
       ELSE /\ statistics' = GetStatistics(parent_documents, chunks)
            /\ pc' = "build_return"
    /\ UNCHANGED <<parent_documents, filterVars, aggVars, routerVars, route_type, askLocals,
                   generation_module, vectorstore, chunkVars, fusionVars, configVars,
                   saved_index, index_docs, runs, data_files>>

NextBuild ==
    \/ SystemInit
    \/ BuildLoadIndex
    \/ BuildLoadDocuments
    \/ BuildChunk
    \/ BuildIndex
    \/ BuildRetrieval

SpecBuild == InitBuild /\ [][NextBuild]_vars

\* C29: after build_knowledge_base, on the load-saved-index path and on the
\* build-new-index path alike, the chunks given to the retrieval module and
\* the chunks the vector index holds are the same chunks with the same
\* chunk_ids.
C29_OneChunkIdPerPassage ==
    pc = "build_return" =>
        { retrieval_chunks[i] : i \in DOMAIN retrieval_chunks }
           = { index_docs[i] : i \in DOMAIN index_docs }

(***************************************************************************)
(* Claims about ask_question (checked under SpecAsk)                       *)
(***************************************************************************)
GeneratorOps ==
    {"generate_basic_answer", "generate_basic_answer_stream", "generate_list_answer",
     "generate_compare_answer", "generate_compare_answer_stream"}
SearchOps == {"metadata_filtered_search", "hybrid_search"}

\* the calls of the log whose operation is in ops, in order
RECURSIVE CallsOf(_, _)
CallsOf(log, ops) ==
    IF log = <<>> THEN <<>>
    ELSE IF Head(log).op \in ops THEN <<Head(log)>> \o CallsOf(Tail(log), ops)
         ELSE CallsOf(Tail(log), ops)

\* no search of this run returned a chunk
NothingRetrieved ==
    IF route_type = CompareLabel
    THEN \A i \in DOMAIN all_chunks : all_chunks[i] = <<>>
    ELSE all_chunks = <<>>

\* C4: on every retrieval route, a run whose searches returned no chunk
\* returns the fixed apology and calls no answer generator.
C4_EmptyRetrievalApologises ==
    (pc = "ask_return" /\ route_type # DirectLabel /\ NothingRetrieved) =>
        /\ answer = Apology
        /\ CallsOf(calls, GeneratorOps) = <<>>

\* C5 as stated: on the list route the rewriter is never called and every
\* search call receives the original question.
C5_ListSearchesQuestion ==
    route_type = ListLabel =>
        /\ CallsOf(calls, {"query_rewritten"}) = <<>>
        /\ \A i \in DOMAIN CallsOf(calls, SearchOps) :
              CallsOf(calls, SearchOps)[i].query = question

\* C5 as amended: on the list route the rewriter is never called, the
\* decomposer receives the original question, and the i-th search call
\* receives the i-th sub-query the decomposer returned, unchanged.
C5_ListSkipsRewrite ==
    route_type = ListLabel =>
        /\ CallsOf(calls, {"query_rewritten"}) = <<>>
        /\ \A i \in DOMAIN CallsOf(calls, {"extract_subqueries"}) :
              CallsOf(calls, {"extract_subqueries"})[i].query = question
        /\ Len(CallsOf(calls, SearchOps)) <= Len(subqueries)
        /\ \A i \in DOMAIN CallsOf(calls, SearchOps) :
              CallsOf(calls, SearchOps)[i].query = subqueries[i]
        /\ pc = "ask_return" => Len(CallsOf(calls, SearchOps)) = Len(subqueries)

\* C5 witness: a list run has ended whose searches were given two
\* sub-queries, one of them not the question.
C5_Witness ==
    /\ pc = "ask_return"
    /\ route_type = ListLabel
    /\ Len(CallsOf(calls, SearchOps)) = 2
    /\ \E i \in DOMAIN subqueries : subqueries[i] # question

\* C7: on the direct route the run makes no call but the classifier's and
\* the direct-answer generator's, and returns that generator's result.
C7_DirectIsTerminal ==
    route_type = DirectLabel =>
        /\ \A i \in DOMAIN calls :
              calls[i].op \in {"query_router", "generate_direct_answer",
                               "generate_direct_answer_stream"}
        /\ pc \in {"ask_direct", "ask_return"}
        /\ pc = "ask_return" =>
              LET op == IF stream THEN "generate_direct_answer_stream"
                        ELSE "generate_direct_answer"
              IN /\ calls = <<Call("query_router", question), Call(op, question)>>
                 /\ answer = Generated(op, question, <<>>)

\* C7 witness: a direct run has returned the direct answer.
C7_Witness ==
    /\ pc = "ask_return"
    /\ route_type = DirectLabel
    /\ answer.by = "generate_direct_answer"

\* C16: an entry point called before its index is ready raises and makes no
\* external call: ask_question and search_by_artist when retrieval_module is
\* unset, similarity_search when vectorstore is unset.
C16_SearchBeforeReadyRaises ==
    /\ ~retrieval_module =>
          pc \in {"ask_call", "ask_raised", "artist_call", "artist_raised",
                  "similarity_call", "similarity_raised", "similarity_return"}
    /\ ~vectorstore => pc \notin {"similarity_return"}
    /\ pc \in {"ask_raised", "artist_raised", "similarity_raised"} =>
          /\ calls = <<>>
          /\ answer = NoAnswer

\* C16 witness: ask_question raised on a system whose generation module is
\* set and whose retrieval module is not.
C16_Witness ==
    /\ pc = "ask_raised"
    /\ generation_module
    /\ ~retrieval_module

\* the routes that retrieve
RetrievalRoutes == {ListLabel, CompareLabel, GeneralLabel}

\* C17: on a retrieval route one search call is made per sub-query, in
\* sub-query order, with the filter set inferred for that sub-query:
\* metadata_filtered_search when the set is not empty, else hybrid_search.
C17_OneSearchPerSubquery ==
    (route_type \in RetrievalRoutes /\ pc \in {"ask_retrieve", "ask_return"}) =>
        LET searches == CallsOf(calls, SearchOps)
        IN /\ Len(searches) = IF pc = "ask_return" THEN Len(subqueries) ELSE sub_idx - 1
           /\ \A i \in DOMAIN searches :
                 /\ searches[i].filters \in PossibleFilters(parent_documents, subqueries[i])
                 /\ searches[i].op = IF searches[i].filters # NoFilters
                                     THEN "metadata_filtered_search"
                                     ELSE "hybrid_search"
           /\ Len(CallsOf(calls, {"_extract_filters_from_query"})) = Len(searches)

\* C17 witness: a run of two sub-queries ended with the apology after a
\* filtered search and an unfiltered one, both without result.
C17_Witness ==
    /\ pc = "ask_return"
    /\ route_type = GeneralLabel
    /\ answer = Apology
    /\ Len(subqueries) = 2
    /\ CallsOf(calls, SearchOps)[1].op = "metadata_filtered_search"
    /\ CallsOf(calls, SearchOps)[2].op = "hybrid_search"

\* C18: every search call of the compare route requests top_cmp_k results,
\* every search call of the list and general routes requests top_k, and
\* with the default configuration the compare budget is the smaller one.
C18_TopKByRoute ==
    route_type \in RetrievalRoutes =>
        \A i \in DOMAIN CallsOf(calls, SearchOps) :
            /\ CallsOf(calls, SearchOps)[i].top_k =
                  IF route_type = CompareLabel THEN TopCmpK ELSE TopK
            /\ CallsOf(calls, SearchOps)[i].top_k =
                  IF route_type = CompareLabel THEN 3 ELSE 10

\* C18 witness: a compare run has made two search calls.
C18_Witness ==
    /\ route_type = CompareLabel
    /\ pc = "ask_return"
    /\ Len(CallsOf(calls, SearchOps)) = 2

\* what the search calls of the run returned, in call order
RECURSIVE Returns(_)
Returns(log) ==
    IF log = <<>> THEN <<>>
    ELSE IF Head(log).op = "search_returned" THEN <<Head(log).docs>> \o Returns(Tail(log))
         ELSE Returns(Tail(log))

\* the parents of docs that chunks resolve to, and how many chunks each has
Resolved(docs, cs) ==
    {n \in DOMAIN docs : \E i \in DOMAIN cs :
        ParentIdOf(cs[i]) = docs[n].metadata["parent_id"]}
Matches(d, cs) ==
    Cardinality({i \in DOMAIN cs : ParentIdOf(cs[i]) = d.metadata["parent_id"]})

\* C19: on the compare route the compare generator receives one group per
\* sub-query, in sub-query order, and group i holds the parents of the chunks
\* that the search of sub-query i returned, and of no other chunks.
C19_GroupsPerSubquery ==
    (route_type = CompareLabel /\ pc = "ask_return") =>
        /\ Len(answer.docs) = Len(subqueries)
        /\ Len(Returns(calls)) = Len(subqueries)
        /\ \A i \in DOMAIN answer.docs :
              /\ answer.docs[i] = GetParentDocuments(parent_documents, Returns(calls)[i])
              /\ {answer.docs[i][n] : n \in DOMAIN answer.docs[i]} =
                    {parent_documents[n] :
                        n \in Resolved(parent_documents, Returns(calls)[i])}

\* C19 witness: a compare run of two sub-queries whose searches returned
\* chunks of different parents has handed two different groups over.
C19_Witness ==
    /\ route_type = CompareLabel
    /\ pc = "ask_return"
    /\ Len(answer.docs) = 2
    /\ answer.docs[1] # <<>>
    /\ answer.docs[2] # <<>>
    /\ answer.docs[1] # answer.docs[2]

\* C20: on the list and general routes the chunks of all sub-queries are
\* put into one pool in sub-query order and aggregated once, so the parents
\* come in the order of their numbers of chunks in the whole pool.
C20_OnePoolAggregatedOnce ==
    (route_type \in {ListLabel, GeneralLabel} /\ pc = "ask_return"
        /\ answer # Apology) =>
        LET pool == Concat(Returns(calls))
        IN /\ all_chunks = pool
           /\ Len(CallsOf(calls, {"get_parent_documents"})) = 1
           /\ answer.docs = GetParentDocuments(parent_documents, pool)
           /\ {answer.docs[n] : n \in DOMAIN answer.docs} =
                 {parent_documents[n] : n \in Resolved(parent_documents, pool)}
           /\ \A i, j \in DOMAIN answer.docs :
                 i < j => Matches(answer.docs[i], pool) >= Matches(answer.docs[j], pool)

\* C20 witness: a run of two sub-queries ranked a parent first that no
\* single search had given more chunks than the other parent.
C20_Witness ==
    /\ route_type = GeneralLabel
    /\ pc = "ask_return"
    /\ Len(Returns(calls)) = 2
    /\ Len(answer.docs) = 2
    /\ Matches(answer.docs[1], Concat(Returns(calls))) = 2
    /\ \A i \in 1..2 : Matches(answer.docs[1], Returns(calls)[i]) = 1

\* C21: an external call of ask_question that raises ends the whole call: its
\* entry is the last of the log (no retry, no later external call), it is the
\* only one, ask_question is left and no answer was returned.
C21_FailureEndsTheCall ==
    \A i \in DOMAIN calls :
        calls[i].op = "raised" =>
            /\ i = Len(calls)
            /\ pc = "ask_failed"
            /\ answer = NoAnswer

\* A sub-query's search raised after an earlier call of the request returned
C21_Witness ==
    /\ pc = "ask_failed"
    /\ Len(calls) > 3
    /\ calls[Len(calls)].op = "raised"
    /\ calls[Len(calls)].by \in SearchOps
    /\ answer = NoAnswer

\* C24: extract_subqueries returns at least one sub-query for every decomposer
\* output, each a non-empty trimmed line, so the retrieve loop has a
\* sub-query to dispatch.
C24_AtLeastOneSubquery ==
    pc = "ask_retrieve" =>
        /\ subqueries # <<>>
        /\ \A i \in DOMAIN subqueries :
              subqueries[i] # EmptyStr /\ Strip(subqueries[i]) = subqueries[i]

\* the state of the orchestration a logged call belongs to
Phase(op) ==
    CASE op = "query_router" -> 1
      [] op = "query_rewritten" -> 2
      [] op = "extract_subqueries" -> 3
      [] op \in SearchOps \cup {"_extract_filters_from_query", "search_returned"} -> 4
      [] op = "get_parent_documents" -> 5
      [] OTHER -> 6

\* C26: a run of ask_question goes through ROUTE, REWRITE (or skip),
\* DECOMPOSE, RETRIEVE, AGGREGATE, ANSWER in this order: the classifier is
\* called exactly once and first, and no call of an earlier state (the
\* rewriter after the decomposer, in particular) follows a call of a later one.
C26_StatesInOrder ==
    pc \in {"ask_direct", "ask_rewrite", "ask_decompose", "ask_retrieve", "ask_return"} =>
        /\ calls[1].op = "query_router"
        /\ Len(CallsOf(calls, {"query_router"})) = 1
        /\ \A i, j \in DOMAIN calls :
              i < j => Phase(calls[i].op) <= Phase(calls[j].op)

(***************************************************************************)
(* Claims about parent aggregation (checked under SpecAgg)                 *)
(***************************************************************************)
\* the number of input chunks that carry the parent id of document d
HitCount(d) == ParentScore(child_chunks, d.metadata["parent_id"])

\* the position of the first input chunk that carries the parent id of d
FirstHit(d) ==
    Min({i \in DOMAIN child_chunks :
            ParentIdOf(child_chunks[i]) = d.metadata["parent_id"]})

\* C8: the parents come in non-increasing order of their number of input
\* chunks, and of two parents with equal numbers the one whose first chunk is
\* earlier in the input comes first.
C8_OrderedByCountThenFirstSeen ==
    pc = "agg_return" =>
        \A i, j \in DOMAIN result :
            i < j =>
                \/ HitCount(result[i]) > HitCount(result[j])
                \/ /\ HitCount(result[i]) = HitCount(result[j])
                   /\ FirstHit(result[i]) < FirstHit(result[j])

\* C8 witness: two parents with equal counts were returned behind a parent
\* with a larger count.
C8_Witness ==
    /\ pc = "agg_return"
    /\ Len(result) = 3
    /\ HitCount(result[1]) > HitCount(result[2])
    /\ HitCount(result[2]) = HitCount(result[3])

\* the input chunks whose parent id some parent document carries
RECURSIVE Resolvable(_, _)
Resolvable(docs, cs) ==
    IF cs = <<>> THEN <<>>
    ELSE IF \E i \in DOMAIN docs :
               Get(docs[i].metadata, "parent_id", NoneValue) = ParentIdOf(Head(cs))
         THEN <<Head(cs)>> \o Resolvable(docs, Tail(cs))
         ELSE Resolvable(docs, Tail(cs))

\* C9: the call never raises; the output holds every parent that some input
\* chunk resolves to, each once, and nothing else; and it equals the output
\* for the input without its unresolvable chunks.
C9_UnresolvableSkipped ==
    /\ pc # "agg_raised"
    /\ pc = "agg_return" =>
        /\ \A i, j \in DOMAIN result : i # j => result[i] # result[j]
        /\ {result[i] : i \in DOMAIN result} =
             {parent_documents[n] : n \in {m \in DOMAIN parent_documents :
                 \E i \in DOMAIN child_chunks :
                     ParentIdOf(child_chunks[i]) =
                         parent_documents[m].metadata["parent_id"]}}
        /\ result = GetParentDocuments(parent_documents,
                                       Resolvable(parent_documents, child_chunks))

\* C9 witness: a call whose input held a chunk without parent_id and a chunk
\* of an unknown parent returned a resolvable parent.
C9_Witness ==
    /\ pc = "agg_return"
    /\ \E i \in DOMAIN child_chunks : ParentIdOf(child_chunks[i]) = NoneValue
    /\ \E i \in DOMAIN child_chunks :
          /\ ~Falsy(ParentIdOf(child_chunks[i]))
          /\ \A n \in DOMAIN parent_documents :
                parent_documents[n].metadata["parent_id"] # ParentIdOf(child_chunks[i])
    /\ Len(result) >= 1

(***************************************************************************)
(* Inputs of the query_router specification                                *)
(***************************************************************************)
RouterFragments ==
    {ListLabel, GeneralLabel, CompareLabel, DirectLabel, <<"x">>, <<" ">>, <<"\n">>}

RouterOutputs ==
    UNION {{Concat(ps) : ps \in [1..n -> RouterFragments]} : n \in 0..MaxRouterParts}

InitRouter ==
    /\ pc = "router_call"
    /\ llm_out \in RouterOutputs
    /\ route_type = EmptyStr
    /\ parent_documents = <<>>
    /\ FilterIdle /\ AggIdle /\ AskIdle /\ ChunkIdle
    /\ RestIdle

\* one call of query_router whose chain returned llm_out
QueryRouterCall ==
    /\ pc = "router_call"
    /\ route_type' = QueryRouter(llm_out)
    /\ pc' = "router_return"
    /\ UNCHANGED <<parent_documents, filterVars, restVars, aggVars, routerVars, askVars, chunkVars>>

NextRouter == QueryRouterCall

SpecRouter == InitRouter /\ [][NextRouter]_vars

(***************************************************************************)
(* Claims about query_router (checked under SpecRouter)                    *)
(***************************************************************************)
\* C6: query_router returns one of the four labels: the stripped classifier
\* output when that is a label, and general for every other output.
C6_RouterClosedSet ==
    pc = "router_return" =>
        /\ route_type \in RouteLabels
        /\ Strip(llm_out) \in RouteLabels => route_type = Strip(llm_out)
        /\ Strip(llm_out) \notin RouteLabels => route_type = GeneralLabel

\* C6 witness: an output that is no label, though it holds one, was coerced
\* to general.
C6_Witness ==
    /\ pc = "router_return"
    /\ IsSubstring(ListLabel, llm_out)
    /\ Strip(llm_out) \notin RouteLabels
    /\ route_type = GeneralLabel

(***************************************************************************)
(* Claims about filter inference (checked under SpecFilter)                *)
(***************************************************************************)
\* the non-empty corpus values of field f that occur in the query
Matching(f) ==
    {v \in FieldValues(parent_documents, f) : v # EmptyStr /\ IsSubstring(v, query)}

\* C1: for every field, the value selected is the longest corpus value of
\* that field that occurs in the query (and a field is selected exactly when
\* some value of it occurs).
C1_LongestMatchSelected ==
    pc = "filter_return" =>
        \A f \in FilterFields :
            /\ (f \in DOMAIN filters) <=> (Matching(f) # {})
            /\ f \in DOMAIN filters =>
                 /\ filters[f] \in Matching(f)
                 /\ \A w \in Matching(f) : Len(w) <= Len(filters[f])

\* C2: the inferred filter set never holds a sentinel value written by
\* _enhance_metadata.
C2_NoSentinelInFilters ==
    pc = "filter_return" =>
        \A f \in DOMAIN filters :
            filters[f] \notin {Unknown, UnknownArtist, UnknownTitle}

\* C3: a field is in the filter set exactly when one of its corpus values
\* occurs in the query, whatever the other fields matched; the worked example
\* yields artist = Zhang Xuan and album = Mei Gui Se De Ni.
C3_FieldsIndependent ==
    pc = "filter_return" =>
        /\ \A f \in FilterFields : (f \in DOMAIN filters) <=> (Matching(f) # {})
        /\ (parent_documents = ExampleDocs /\ query = ExampleQuery) =>
              /\ {"artist", "album"} \subseteq DOMAIN filters
              /\ filters["artist"] = ZhangXuan
              /\ filters["album"] = MeiGuiSeDeNi

\* C3 witness: the worked example has been run and both fields were inferred.
C3_Witness ==
    /\ pc = "filter_return"
    /\ parent_documents = ExampleDocs
    /\ query = ExampleQuery
    /\ DOMAIN filters = {"artist", "album"}

====
